---- MODULE Spec2Model ----
(***************************************************************************)
(* Register-level model of the M55M1 standard drivers: the EADC driver     *)
(* (eadc.c), with EADC_Calibration as a step machine that the EADC         *)
(* hardware runs beside, and the USCI_SPI bus clock arithmetic             *)
(* (usci_spi.c).  Machine words are scaled down from 32 to WordBits bits;  *)
(* every unsigned operation is taken modulo WordMod.                       *)
(***************************************************************************)
EXTENDS Integers, Sequences, FiniteSets, TLC

(***************************************************************************)
(* Bounds of the model.                                                    *)
(***************************************************************************)
WordBits == 6
WordMod == 2 ^ WordBits
MaxCoreClock == 41
MaxClkSel == 4
MaxClkDiv == 2
MaxModuleNum == 29
MaxSampleCalls == 2
UspiWordBits == 10
UspiWordMod == 2 ^ UspiWordBits
MaxPclk == 12
MaxBusClock == 13
OtgFlagBits == 2

\* The core clock frequencies explored: 0 and 1 (below the divisor), the divisor of
\* the second countdown, and a frequency that gives a countdown above 1.
CoreClocks == {0, 1, 20, MaxCoreClock}

(***************************************************************************)
(* Unsigned machine arithmetic and bitwise operations.                     *)
(***************************************************************************)
RECURSIVE BitAnd(_, _)
BitAnd(a, b) ==
    IF a = 0 \/ b = 0 THEN 0
    ELSE (a % 2) * (b % 2) + 2 * BitAnd(a \div 2, b \div 2)

RECURSIVE BitOr(_, _)
BitOr(a, b) ==
    IF a = 0 THEN b
    ELSE IF b = 0 THEN a
    ELSE (IF (a % 2) + (b % 2) > 0 THEN 1 ELSE 0) + 2 * BitOr(a \div 2, b \div 2)

\* --x on a uint32_t
PreDec(x) == (x - 1) % WordMod

(***************************************************************************)
(* Register layout and driver constants (device headers).                  *)
(***************************************************************************)
CLK_EADCSEL_EADC0SEL_Msk == 3
CLK_EADCSEL_EADC0SEL_PCLK0 == 2
CLK_EADCDIV_EADC0DIV_Msk == 1
EADC_TIMEOUT_ERR == -1
CalPollDivisor == 20
SCTL19Base == 19
LastSampleModule == 27
USPI_BRGEN_CLKDIV_Pos == 4
USPI_BRGEN_CLKDIV_Msk == 48
USPI_MASTER == 0
USPI_SLAVE == 1
DWidthLimit == 16

\* usci_spi.h: the interrupt sources of u32Mask, one bit each.
USPI_SSINACT_INT_MASK == 1
USPI_SSACT_INT_MASK == 2
USPI_SLVTO_INT_MASK == 4
USPI_SLVBE_INT_MASK == 8
USPI_TXUDR_INT_MASK == 16
USPI_RXOV_INT_MASK == 32
USPI_TXST_INT_MASK == 64
USPI_TXEND_INT_MASK == 128
USPI_RXST_INT_MASK == 256
USPI_RXEND_INT_MASK == 512

\* usci_spi.h: the status sources of USPI_GetStatus, one bit each.
USPI_BUSY_MASK == 1
USPI_RX_EMPTY_MASK == 2
USPI_RX_FULL_MASK == 4
USPI_TX_EMPTY_MASK == 8
USPI_TX_FULL_MASK == 16
USPI_SSLINE_STS_MASK == 32

(***************************************************************************)
(* State.                                                                  *)
(***************************************************************************)
VARIABLES
    SystemCoreClock,     \* core clock frequency (CMSIS global)
    g_EADC_i32ErrCode,   \* EADC global error code
    EADCSEL,             \* CLK->EADCSEL
    EADCDIV,             \* CLK->EADCDIV
    CTL,                 \* eadc->CTL: fields ADCEN, ADCRST, DIFFEN
    CALIF,               \* eadc->CALSR, bit CALIF (write 1 to clear)
    CAL,                 \* eadc->CALCTL, bit CAL
    TRGDEC,              \* bit 8 of the word at eadc + 0xFF0
    pc,                  \* position of the caller / of EADC_Calibration
    u32Delay,            \* local of EADC_Calibration
    u32EADCClkSel,       \* local of EADC_Calibration
    u32EADCClkDiv,       \* local of EADC_Calibration
    obs,                 \* what the current EADC_Calibration call has done
    SCTL,                \* eadc->SCTL[0..18]
    SCTL19,              \* eadc->SCTL19[0..8]
    pastSCTL19,          \* the words of the register block that follow SCTL19
    sample,              \* the last sample-module call and the state it found
    PCLK1,               \* what CLK_GetPCLK1Freq() returns
    UCTL,                \* uspi->CTL: field FUNMODE
    LINECTL,             \* uspi->LINECTL: fields DWIDTH, LSB, CTLOINV
    CTLIN0,              \* uspi->CTLIN0: field ININV
    PROTCTL,             \* uspi->PROTCTL: fields SLAVE, SCLKMODE, AUTOSS, PROTEN
    BRGEN,               \* uspi->BRGEN, as a word
    uspiCall,            \* the last USCI_SPI call, its arguments and its result
    PROTSTS,             \* uspi->PROTSTS: the set of flags that are 1
    BUFSTS,              \* uspi->BUFSTS: the set of flags that are 1
    PROTIEN,             \* uspi->PROTIEN: the set of enable bits that are 1
    BUFCTL,              \* uspi->BUFCTL: the set of enable bits that are 1
    INTEN,               \* uspi->INTEN: the set of enable bits that are 1
    intCall,             \* the last USCI_SPI interrupt/status call and what it found
    intHist,             \* initial enables and the last call that selected each source
    otg,                 \* INTEN and INTSTS words of OTG and HSOTG
    otgCall              \* the last OTG/HSOTG macro, its argument and what it found

eadcVars == <<SystemCoreClock, EADCSEL, EADCDIV, CTL, CALIF, CAL,
              TRGDEC, pc, u32Delay, u32EADCClkSel, u32EADCClkDiv, obs>>
sampleVars == <<SCTL, SCTL19, pastSCTL19, sample>>
uspiVars == <<PCLK1, UCTL, LINECTL, CTLIN0, PROTCTL, BRGEN, uspiCall>>
intVars == <<PROTSTS, BUFSTS, PROTIEN, BUFCTL, INTEN, intCall, intHist>>
otgVars == <<otg, otgCall>>
vars == <<g_EADC_i32ErrCode, eadcVars, sampleVars, uspiVars, intVars, otgVars>>

NoObs == [sel |-> 0, div |-> 0, calif |-> 0, err |-> 0, ev |-> <<>>,
          rTests |-> 0, fTests |-> 0, rTO |-> FALSE, fTO |-> FALSE,
          hwCalif |-> FALSE, open |-> FALSE, mode |-> 0,
          tested |-> "none"]

\* A sample module control word, by field.  TRG stands for the trigger
\* fields EXTFEN, EXTREN and TRGSEL together.
SampleWord0 == [TRG |-> 0, CHSEL |-> 0, TRGDLDIV |-> 0, TRGDLCNT |-> 0, EXTSMPT |-> 0]
NoSample == [fn |-> "none", module |-> 0, err |-> 0,
             SCTL |-> <<>>, SCTL19 |-> <<>>, past |-> <<>>, n |-> 0,
             trg |-> 0, ch |-> 0]
NoUspiCall == [fn |-> "none", uspi0 |-> TRUE, P |-> 0, B |-> 0, ms |-> 0, mode |-> 0,
               width |-> 0, div |-> 0, ret |-> 0, fault |-> FALSE, brgen |-> 0]

\* Registers and locals of the EADC and its clock after reset.
EadcReset ==
    /\ CTL = [ADCEN |-> 0, ADCRST |-> 0, DIFFEN |-> 0]
    /\ CAL = 0
    /\ TRGDEC = 0
    /\ pc = "idle"
    /\ u32Delay = 0
    /\ u32EADCClkSel = 0
    /\ u32EADCClkDiv = 0
    /\ obs = NoObs

SampleReset ==
    /\ SCTL = [m \in 0..(SCTL19Base - 1) |-> SampleWord0]
    /\ SCTL19 = [m \in 0..(LastSampleModule - SCTL19Base) |-> SampleWord0]
    /\ pastSCTL19 = [m \in (LastSampleModule - SCTL19Base + 1)..(MaxModuleNum - SCTL19Base)
                       |-> SampleWord0]
    /\ sample = NoSample

UspiReset ==
    /\ PCLK1 = 0
    /\ UCTL = [FUNMODE |-> 0]
    /\ LINECTL = [DWIDTH |-> 0, LSB |-> 0, CTLOINV |-> 0]
    /\ CTLIN0 = [ININV |-> 0]
    /\ PROTCTL = [SLAVE |-> 0, SCLKMODE |-> 0, AUTOSS |-> 0, PROTEN |-> 0]
    /\ BRGEN = 0
    /\ uspiCall = NoUspiCall

\* The sources of USPI_EnableInt / USPI_DisableInt / USPI_GetIntFlag /
\* USPI_ClearIntFlag in the order of the code: the bit of u32Mask, the
\* status register and flag, the control register and enable bit.
IntSources ==
    << [mask |-> USPI_SSINACT_INT_MASK, sts |-> "PROTSTS", flag |-> "SSINAIF",
        ctl |-> "PROTIEN", ien |-> "SSINAIEN"],
       [mask |-> USPI_SSACT_INT_MASK, sts |-> "PROTSTS", flag |-> "SSACTIF",
        ctl |-> "PROTIEN", ien |-> "SSACTIEN"],
       [mask |-> USPI_SLVTO_INT_MASK, sts |-> "PROTSTS", flag |-> "SLVTOIF",
        ctl |-> "PROTIEN", ien |-> "SLVTOIEN"],
       [mask |-> USPI_SLVBE_INT_MASK, sts |-> "PROTSTS", flag |-> "SLVBEIF",
        ctl |-> "PROTIEN", ien |-> "SLVBEIEN"],
       [mask |-> USPI_TXUDR_INT_MASK, sts |-> "BUFSTS", flag |-> "TXUDRIF",
        ctl |-> "BUFCTL", ien |-> "TXUDRIEN"],
       [mask |-> USPI_RXOV_INT_MASK, sts |-> "BUFSTS", flag |-> "RXOVIF",
        ctl |-> "BUFCTL", ien |-> "RXOVIEN"],
       [mask |-> USPI_TXST_INT_MASK, sts |-> "PROTSTS", flag |-> "TXSTIF",
        ctl |-> "INTEN", ien |-> "TXSTIEN"],
       [mask |-> USPI_TXEND_INT_MASK, sts |-> "PROTSTS", flag |-> "TXENDIF",
        ctl |-> "INTEN", ien |-> "TXENDIEN"],
       [mask |-> USPI_RXST_INT_MASK, sts |-> "PROTSTS", flag |-> "RXSTIF",
        ctl |-> "INTEN", ien |-> "RXSTIEN"],
       [mask |-> USPI_RXEND_INT_MASK, sts |-> "PROTSTS", flag |-> "RXENDIF",
        ctl |-> "INTEN", ien |-> "RXENDIEN"] >>

\* The sources of USPI_GetStatus in the order of the code.
StatusSources ==
    << [mask |-> USPI_BUSY_MASK, sts |-> "PROTSTS", flag |-> "BUSY"],
       [mask |-> USPI_RX_EMPTY_MASK, sts |-> "BUFSTS", flag |-> "RXEMPTY"],
       [mask |-> USPI_RX_FULL_MASK, sts |-> "BUFSTS", flag |-> "RXFULL"],
       [mask |-> USPI_TX_EMPTY_MASK, sts |-> "BUFSTS", flag |-> "TXEMPTY"],
       [mask |-> USPI_TX_FULL_MASK, sts |-> "BUFSTS", flag |-> "TXFULL"],
       [mask |-> USPI_SSLINE_STS_MASK, sts |-> "PROTSTS", flag |-> "SSLINE"] >>

NoIntCall == [fn |-> "none", mask |-> 0, ret |-> 0, PROTSTS |-> {}, BUFSTS |-> {},
              PROTIEN |-> {}, BUFCTL |-> {}, INTEN |-> {}]
NoIntHist == [ien0 |-> {}, last |-> [i \in DOMAIN IntSources |-> "none"]]

\* USCI_SPI interrupt and status registers after reset.
UspiIntReset ==
    /\ PROTSTS = {}
    /\ BUFSTS = {}
    /\ PROTIEN = {}
    /\ BUFCTL = {}
    /\ INTEN = {}
    /\ intCall = NoIntCall
    /\ intHist = NoIntHist

OtgDevs == {"OTG", "HSOTG"}
OtgReg0 == [d \in OtgDevs |-> [INTEN |-> 0, INTSTS |-> 0]]
NoOtgCall == [fn |-> "none", dev |-> "OTG", mask |-> 0, ret |-> 0, otg |-> OtgReg0]

\* OTG and HSOTG interrupt registers after reset.
OtgReset ==
    /\ otg = OtgReg0
    /\ otgCall = NoOtgCall

Init ==
    /\ SystemCoreClock \in CoreClocks
    /\ g_EADC_i32ErrCode = 0
    /\ EADCSEL \in 0..MaxClkSel
    /\ EADCDIV \in 0..MaxClkDiv
    /\ CALIF \in {0, 1}
    /\ EadcReset
    /\ SampleReset
    /\ UspiReset
    /\ UspiIntReset
    /\ OtgReset

Log(e) == [obs EXCEPT !.ev = Append(@, e)]

(***************************************************************************)
(* EADC_Calibration, eadc.c lines 66-117.                                  *)
(***************************************************************************)
\* EADC_Calibration_Begin without line 71: the error code is left as it was.
EADC_Calibration_Begin_KeepErr ==
    /\ pc \in {"idle", "open_cal"}
    /\ u32Delay' = SystemCoreClock
    /\ u32EADCClkSel' = EADCSEL
    /\ u32EADCClkDiv' = EADCDIV
    /\ obs' = [NoObs EXCEPT !.sel = EADCSEL, !.div = EADCDIV, !.calif = CALIF,
                            !.err = g_EADC_i32ErrCode,
                            !.open = (pc = "open_cal"),
                            !.mode = obs.mode,
                            !.ev = <<"snapshot">>]
    /\ pc' = "reprogram"
    /\ UNCHANGED <<g_EADC_i32ErrCode, sampleVars, uspiVars, intVars, otgVars>>
    /\ UNCHANGED <<SystemCoreClock, EADCSEL, EADCDIV, CTL, CALIF, CAL, TRGDEC>>

\* Lines 68-75: the countdown is seeded, the error code is zeroed and the
\* clock settings are recorded.  Entered from the caller or from EADC_Open.
EADC_Calibration_Begin ==
    /\ pc \in {"idle", "open_cal"}
    /\ u32Delay' = SystemCoreClock
    /\ g_EADC_i32ErrCode' = 0
    /\ u32EADCClkSel' = EADCSEL
    /\ u32EADCClkDiv' = EADCDIV
    /\ obs' = [NoObs EXCEPT !.sel = EADCSEL, !.div = EADCDIV, !.calif = CALIF,
                            !.err = g_EADC_i32ErrCode,
                            !.open = (pc = "open_cal"),
                            !.mode = obs.mode,
                            !.ev = <<"snapshot">>]
    /\ pc' = "reprogram"
    /\ UNCHANGED <<sampleVars, uspiVars, intVars, otgVars>>
    /\ UNCHANGED <<SystemCoreClock, EADCSEL, EADCDIV, CTL, CALIF, CAL, TRGDEC>>

\* Lines 78-79.
ReprogramSel(sel) ==
    BitOr(BitAnd(sel, CLK_EADCSEL_EADC0SEL_Msk), CLK_EADCSEL_EADC0SEL_PCLK0)

ReprogramDiv(div) == BitAnd(div, CLK_EADCDIV_EADC0DIV_Msk)

EADC_Calibration_Reprogram ==
    /\ pc = "reprogram"
    /\ EADCSEL' = ReprogramSel(EADCSEL)
    /\ EADCDIV' = ReprogramDiv(EADCDIV)
    /\ obs' = Log("reprogram")
    /\ pc' = "enable"
    /\ UNCHANGED <<sampleVars, uspiVars, intVars, otgVars>>
    /\ UNCHANGED <<SystemCoreClock, g_EADC_i32ErrCode, CTL, CALIF, CAL, TRGDEC,
                   u32Delay, u32EADCClkSel, u32EADCClkDiv>>

\* Line 82.
EADC_Calibration_Enable ==
    /\ pc = "enable"
    /\ CTL' = [CTL EXCEPT !.ADCEN = 1]
    /\ obs' = Log("adcen")
    /\ pc' = "check"
    /\ UNCHANGED <<sampleVars, uspiVars, intVars, otgVars>>
    /\ UNCHANGED <<SystemCoreClock, g_EADC_i32ErrCode, EADCSEL, EADCDIV, CALIF, CAL,
                   TRGDEC, u32Delay, u32EADCClkSel, u32EADCClkDiv>>

\* EADC_Calibration_Check with the test of CALIF dropped: always calibrate.
EADC_Calibration_Check_Always ==
    /\ pc = "check"
    /\ pc' = "reset"
    /\ UNCHANGED <<g_EADC_i32ErrCode, sampleVars, uspiVars, intVars, otgVars>>
    /\ UNCHANGED <<SystemCoreClock, EADCSEL, EADCDIV, CTL, CALIF,
                   CAL, TRGDEC, u32Delay, u32EADCClkSel, u32EADCClkDiv, obs>>

\* The test of line 85 followed by a sequence without its reset part (lines
\* 88-97): the flag is cleared and the calibration started at once.
EADC_Calibration_Check_SkipReset ==
    /\ pc = "check"
    /\ pc' = IF CALIF = 0 THEN "clearflag" ELSE "restore"
    /\ obs' = [obs EXCEPT !.tested = IF CALIF = 0 THEN "clear" ELSE "set"]
    /\ UNCHANGED <<sampleVars, uspiVars, intVars, otgVars>>
    /\ UNCHANGED <<SystemCoreClock, g_EADC_i32ErrCode, EADCSEL, EADCDIV, CTL, CALIF,
                   CAL, TRGDEC, u32Delay, u32EADCClkSel, u32EADCClkDiv>>

\* Line 85; obs.tested keeps what the test found.
EADC_Calibration_Check ==
    /\ pc = "check"
    /\ pc' = IF CALIF = 0 THEN "reset" ELSE "restore"
    /\ obs' = [obs EXCEPT !.tested = IF CALIF = 0 THEN "clear" ELSE "set"]
    /\ UNCHANGED <<sampleVars, uspiVars, intVars, otgVars>>
    /\ UNCHANGED <<SystemCoreClock, g_EADC_i32ErrCode, EADCSEL, EADCDIV, CTL, CALIF,
                   CAL, TRGDEC, u32Delay, u32EADCClkSel, u32EADCClkDiv>>

\* Line 88: EADC_CONV_RESET(eadc).
EADC_CONV_RESET ==
    /\ pc = "reset"
    /\ CTL' = [CTL EXCEPT !.ADCRST = 1]
    /\ obs' = Log("reset")
    /\ pc' = "resetpoll"
    /\ UNCHANGED <<sampleVars, uspiVars, intVars, otgVars>>
    /\ UNCHANGED <<SystemCoreClock, g_EADC_i32ErrCode, EADCSEL, EADCDIV, CALIF, CAL,
                   TRGDEC, u32Delay, u32EADCClkSel, u32EADCClkDiv>>

\* EADC_Calibration_ResetPoll that gives up on a timeout: it goes straight
\* to the restore step.
EADC_Calibration_ResetPoll_Abort ==
    /\ pc = "resetpoll"
    /\ IF CTL.ADCRST = 1
       THEN /\ u32Delay' = PreDec(u32Delay)
            /\ IF PreDec(u32Delay) = 0
               THEN /\ g_EADC_i32ErrCode' = EADC_TIMEOUT_ERR
                    /\ obs' = [Log("resetPollEnd") EXCEPT !.rTests = @ + 1,
                                                          !.rTO = TRUE]
                    /\ pc' = "restore"
               ELSE /\ obs' = [obs EXCEPT !.rTests = @ + 1]
                    /\ UNCHANGED <<g_EADC_i32ErrCode, pc>>
       ELSE /\ obs' = [Log("resetPollEnd") EXCEPT !.rTests = @ + 1]
            /\ pc' = "clearflag"
            /\ UNCHANGED <<g_EADC_i32ErrCode, u32Delay>>
    /\ UNCHANGED <<sampleVars, uspiVars, intVars, otgVars>>
    /\ UNCHANGED <<SystemCoreClock, EADCSEL, EADCDIV, CTL, CALIF, CAL, TRGDEC,
                   u32EADCClkSel, u32EADCClkDiv>>

\* Lines 90-97: one evaluation of the loop condition and, when it holds,
\* one pass through the loop body.
EADC_Calibration_ResetPoll ==
    /\ pc = "resetpoll"
    /\ IF CTL.ADCRST = 1
       THEN /\ u32Delay' = PreDec(u32Delay)
            /\ IF PreDec(u32Delay) = 0
               THEN /\ g_EADC_i32ErrCode' = EADC_TIMEOUT_ERR
                    /\ obs' = [Log("resetPollEnd") EXCEPT !.rTests = @ + 1,
                                                          !.rTO = TRUE]
                    /\ pc' = "clearflag"
               ELSE /\ obs' = [obs EXCEPT !.rTests = @ + 1]
                    /\ UNCHANGED <<g_EADC_i32ErrCode, pc>>
       ELSE /\ obs' = [Log("resetPollEnd") EXCEPT !.rTests = @ + 1]
            /\ pc' = "clearflag"
            /\ UNCHANGED <<g_EADC_i32ErrCode, u32Delay>>
    /\ UNCHANGED <<sampleVars, uspiVars, intVars, otgVars>>
    /\ UNCHANGED <<SystemCoreClock, EADCSEL, EADCDIV, CTL, CALIF, CAL, TRGDEC,
                   u32EADCClkSel, u32EADCClkDiv>>

\* Line 99: CALSR |= CALIF_Msk writes 1 to CALIF, which clears the flag.
EADC_Calibration_ClearFlag ==
    /\ pc = "clearflag"
    /\ CALIF' = 0
    /\ obs' = [Log("clearCALIF") EXCEPT !.rTests = 0]
    /\ pc' = "start"
    /\ UNCHANGED <<sampleVars, uspiVars, intVars, otgVars>>
    /\ UNCHANGED <<SystemCoreClock, g_EADC_i32ErrCode, EADCSEL, EADCDIV, CTL, CAL,
                   TRGDEC, u32Delay, u32EADCClkSel, u32EADCClkDiv>>

\* EADC_Calibration_Start that does not wait for the calibration to end.
EADC_Calibration_Start_NoPoll ==
    /\ pc = "start"
    /\ CAL' = 1
    /\ u32Delay' = SystemCoreClock \div CalPollDivisor
    /\ obs' = Log("calStart")
    /\ pc' = "restore"
    /\ UNCHANGED <<sampleVars, uspiVars, intVars, otgVars>>
    /\ UNCHANGED <<SystemCoreClock, g_EADC_i32ErrCode, EADCSEL, EADCDIV, CTL, CALIF,
                   TRGDEC, u32EADCClkSel, u32EADCClkDiv>>

\* Lines 100-102.
EADC_Calibration_Start ==
    /\ pc = "start"
    /\ CAL' = 1
    /\ u32Delay' = SystemCoreClock \div CalPollDivisor
    /\ obs' = Log("calStart")
    /\ pc' = "finpoll"
    /\ UNCHANGED <<sampleVars, uspiVars, intVars, otgVars>>
    /\ UNCHANGED <<SystemCoreClock, g_EADC_i32ErrCode, EADCSEL, EADCDIV, CTL, CALIF,
                   TRGDEC, u32EADCClkSel, u32EADCClkDiv>>

\* EADC_Calibration_FinPoll without line 108: the countdown ends the wait
\* and nothing is recorded.
EADC_Calibration_FinPoll_Silent ==
    /\ pc = "finpoll"
    /\ IF CALIF # 1
       THEN /\ u32Delay' = PreDec(u32Delay)
            /\ IF PreDec(u32Delay) = 0
               THEN /\ obs' = [Log("finPollEnd") EXCEPT !.fTests = @ + 1,
                                                        !.fTO = TRUE]
                    /\ pc' = "restore"
               ELSE /\ obs' = [obs EXCEPT !.fTests = @ + 1]
                    /\ UNCHANGED pc
       ELSE /\ obs' = [Log("finPollEnd") EXCEPT !.fTests = @ + 1]
            /\ pc' = "restore"
            /\ UNCHANGED u32Delay
    /\ UNCHANGED <<g_EADC_i32ErrCode, sampleVars, uspiVars, intVars, otgVars>>
    /\ UNCHANGED <<SystemCoreClock, EADCSEL, EADCDIV, CTL, CALIF, CAL, TRGDEC,
                   u32EADCClkSel, u32EADCClkDiv>>

\* EADC_Calibration_FinPoll that counts a wait the flag ended as a timeout.
EADC_Calibration_FinPoll_Eager ==
    /\ pc = "finpoll"
    /\ IF CALIF # 1
       THEN /\ u32Delay' = PreDec(u32Delay)
            /\ IF PreDec(u32Delay) = 0
               THEN /\ g_EADC_i32ErrCode' = EADC_TIMEOUT_ERR
                    /\ obs' = [Log("finPollEnd") EXCEPT !.fTests = @ + 1,
                                                        !.fTO = TRUE]
                    /\ pc' = "restore"
               ELSE /\ obs' = [obs EXCEPT !.fTests = @ + 1]
                    /\ UNCHANGED <<g_EADC_i32ErrCode, pc>>
       ELSE /\ obs' = [Log("finPollEnd") EXCEPT !.fTests = @ + 1]
            /\ pc' = "restore"
            /\ g_EADC_i32ErrCode' = IF obs.fTests > 0 THEN EADC_TIMEOUT_ERR
                                    ELSE g_EADC_i32ErrCode
            /\ UNCHANGED u32Delay
    /\ UNCHANGED <<sampleVars, uspiVars, intVars, otgVars>>
    /\ UNCHANGED <<SystemCoreClock, EADCSEL, EADCDIV, CTL, CALIF, CAL, TRGDEC,
                   u32EADCClkSel, u32EADCClkDiv>>

\* Lines 104-111 without the test of line 106: the countdown runs but never
\* ends the wait.
EADC_Calibration_FinPoll_Forever ==
    /\ pc = "finpoll"
    /\ IF CALIF # 1
       THEN /\ u32Delay' = PreDec(u32Delay)
            /\ UNCHANGED <<g_EADC_i32ErrCode, pc, obs>>
       ELSE /\ obs' = [Log("finPollEnd") EXCEPT !.fTests = @ + 1]
            /\ pc' = "restore"
            /\ UNCHANGED <<g_EADC_i32ErrCode, u32Delay>>
    /\ UNCHANGED <<sampleVars, uspiVars, intVars, otgVars>>
    /\ UNCHANGED <<SystemCoreClock, EADCSEL, EADCDIV, CTL, CALIF, CAL, TRGDEC,
                   u32EADCClkSel, u32EADCClkDiv>>

\* Lines 104-111.
EADC_Calibration_FinPoll ==
    /\ pc = "finpoll"
    /\ IF CALIF # 1
       THEN /\ u32Delay' = PreDec(u32Delay)
            /\ IF PreDec(u32Delay) = 0
               THEN /\ g_EADC_i32ErrCode' = EADC_TIMEOUT_ERR
                    /\ obs' = [Log("finPollEnd") EXCEPT !.fTests = @ + 1,
                                                        !.fTO = TRUE]
                    /\ pc' = "restore"
               ELSE /\ obs' = [obs EXCEPT !.fTests = @ + 1]
                    /\ UNCHANGED <<g_EADC_i32ErrCode, pc>>
       ELSE /\ obs' = [Log("finPollEnd") EXCEPT !.fTests = @ + 1]
            /\ pc' = "restore"
            /\ UNCHANGED <<g_EADC_i32ErrCode, u32Delay>>
    /\ UNCHANGED <<sampleVars, uspiVars, intVars, otgVars>>
    /\ UNCHANGED <<SystemCoreClock, EADCSEL, EADCDIV, CTL, CALIF, CAL, TRGDEC,
                   u32EADCClkSel, u32EADCClkDiv>>

\* EADC_Calibration_Restore without line 116: the divider is not put back.
EADC_Calibration_Restore_SelOnly ==
    /\ pc = "restore"
    /\ EADCSEL' = u32EADCClkSel
    /\ EADCDIV' = EADCDIV
    /\ obs' = Log("restore")
    /\ pc' = "done"
    /\ UNCHANGED <<sampleVars, uspiVars, intVars, otgVars>>
    /\ UNCHANGED <<SystemCoreClock, g_EADC_i32ErrCode, CTL, CALIF, CAL, TRGDEC,
                   u32Delay, u32EADCClkSel, u32EADCClkDiv>>

\* Lines 115-117: restore and return.
EADC_Calibration_Restore ==
    /\ pc = "restore"
    /\ EADCSEL' = u32EADCClkSel
    /\ EADCDIV' = u32EADCClkDiv
    /\ obs' = Log("restore")
    /\ pc' = "done"
    /\ UNCHANGED <<sampleVars, uspiVars, intVars, otgVars>>
    /\ UNCHANGED <<SystemCoreClock, g_EADC_i32ErrCode, CTL, CALIF, CAL, TRGDEC,
                   u32Delay, u32EADCClkSel, u32EADCClkDiv>>

\* The caller has the result in hand and goes on; the locals are gone.
Return ==
    /\ pc = "done"
    /\ pc' = "idle"
    /\ u32Delay' = 0
    /\ u32EADCClkSel' = 0
    /\ u32EADCClkDiv' = 0
    /\ obs' = NoObs
    /\ UNCHANGED <<sampleVars, uspiVars, intVars, otgVars>>
    /\ UNCHANGED <<SystemCoreClock, g_EADC_i32ErrCode, EADCSEL, EADCDIV, CTL, CALIF,
                   CAL, TRGDEC>>

(***************************************************************************)
(* EADC_Open (lines 37-49) and EADC_Close (lines 125-128).                 *)
(***************************************************************************)
\* EADC_Open without the clearing write of line 42: the input mode is OR-ed
\* into whatever DIFFEN held.
EADC_Open_NoClear ==
    /\ pc = "idle"
    /\ \E u32InputMode \in {0, 1} :
          /\ CTL' = [CTL EXCEPT !.DIFFEN = BitOr(@, u32InputMode), !.ADCEN = 1]
          /\ obs' = [obs EXCEPT !.mode = u32InputMode]
    /\ TRGDEC' = 1
    /\ pc' = "open_cal"
    /\ UNCHANGED <<sampleVars, uspiVars, intVars, otgVars>>
    /\ UNCHANGED <<SystemCoreClock, g_EADC_i32ErrCode, EADCSEL, EADCDIV, CALIF, CAL,
                   u32Delay, u32EADCClkSel, u32EADCClkDiv>>

\* Lines 40-44; the call of line 47 is the step machine above, entered at
\* "open_cal".  obs.mode keeps the requested input mode for the call.
EADC_Open ==
    /\ pc = "idle"
    /\ \E u32InputMode \in {0, 1} :
          /\ CTL' = [CTL EXCEPT !.DIFFEN = u32InputMode, !.ADCEN = 1]
          /\ obs' = [obs EXCEPT !.mode = u32InputMode]
    /\ TRGDEC' = 1
    /\ pc' = "open_cal"
    /\ UNCHANGED <<sampleVars, uspiVars, intVars, otgVars>>
    /\ UNCHANGED <<SystemCoreClock, g_EADC_i32ErrCode, EADCSEL, EADCDIV, CALIF, CAL,
                   u32Delay, u32EADCClkSel, u32EADCClkDiv>>

\* EADC_Close that also zeroes the error code.
EADC_Close_ClearErr ==
    /\ pc = "idle"
    /\ CTL' = [CTL EXCEPT !.ADCEN = 0]
    /\ g_EADC_i32ErrCode' = 0
    /\ UNCHANGED <<sampleVars, uspiVars, intVars, otgVars>>
    /\ UNCHANGED <<SystemCoreClock, EADCSEL, EADCDIV, CALIF, CAL,
                   TRGDEC, pc, u32Delay, u32EADCClkSel, u32EADCClkDiv, obs>>

EADC_Close ==
    /\ pc = "idle"
    /\ CTL' = [CTL EXCEPT !.ADCEN = 0]
    /\ UNCHANGED <<sampleVars, uspiVars, intVars, otgVars>>
    /\ UNCHANGED <<SystemCoreClock, g_EADC_i32ErrCode, EADCSEL, EADCDIV, CALIF, CAL,
                   TRGDEC, pc, u32Delay, u32EADCClkSel, u32EADCClkDiv, obs>>

(***************************************************************************)
(* The EADC hardware: a reset that was commanded ends, a calibration that  *)
(* was started finishes.  Neither is obliged to happen.                    *)
(***************************************************************************)
HwResetDone ==
    /\ pc # "done"
    /\ CTL.ADCRST = 1
    /\ CTL' = [CTL EXCEPT !.ADCRST = 0]
    /\ UNCHANGED <<sampleVars, uspiVars, intVars, otgVars>>
    /\ UNCHANGED <<SystemCoreClock, g_EADC_i32ErrCode, EADCSEL, EADCDIV, CALIF, CAL,
                   TRGDEC, pc, u32Delay, u32EADCClkSel, u32EADCClkDiv, obs>>

HwCalDone ==
    /\ pc # "done"
    /\ CAL = 1
    /\ CALIF' = 1
    /\ CAL' = 0
    /\ obs' = [obs EXCEPT !.hwCalif = TRUE]
    /\ UNCHANGED <<sampleVars, uspiVars, intVars, otgVars>>
    /\ UNCHANGED <<SystemCoreClock, g_EADC_i32ErrCode, EADCSEL, EADCDIV, CTL, TRGDEC,
                   pc, u32Delay, u32EADCClkSel, u32EADCClkDiv>>

(***************************************************************************)
(* Sample module control, eadc.c lines 169-233.                            *)
(***************************************************************************)
\* The module numbers, trigger sources, channels and times a caller passes.
ModuleNums == {0, SCTL19Base - 1, SCTL19Base, LastSampleModule,
               LastSampleModule + 1, MaxModuleNum}
FieldVals == {1, 2}

\* eadc->SCTL[i] and eadc->SCTL19[i] as one block of words: SCTL19[i] with i
\* past the last element is the word that follows the array.
SampleArmed(fn, u32ModuleNum) ==
    [fn |-> fn, module |-> u32ModuleNum, err |-> g_EADC_i32ErrCode,
     SCTL |-> SCTL, SCTL19 |-> SCTL19, past |-> pastSCTL19, n |-> 0,
     trg |-> 0, ch |-> 0]

\* The control word that u32ModuleNum selects (lines 171-180, 200-209,
\* 223-232).
SampleWord(u32ModuleNum) ==
    IF u32ModuleNum < SCTL19Base THEN SCTL[u32ModuleNum]
    ELSE IF u32ModuleNum - SCTL19Base \in DOMAIN SCTL19
    THEN SCTL19[u32ModuleNum - SCTL19Base]
    ELSE pastSCTL19[u32ModuleNum - SCTL19Base]

\* The write that ends the read-modify-write of that word.  An index past
\* the end of SCTL19 is undefined behaviour: the access lands on the word
\* behind the array, or the build drops it.
SampleStore(u32ModuleNum, w) ==
    IF u32ModuleNum < SCTL19Base
    THEN /\ SCTL' = [SCTL EXCEPT ![u32ModuleNum] = w]
         /\ UNCHANGED <<SCTL19, pastSCTL19>>
    ELSE IF u32ModuleNum - SCTL19Base \in DOMAIN SCTL19
    THEN /\ SCTL19' = [SCTL19 EXCEPT ![u32ModuleNum - SCTL19Base] = w]
         /\ UNCHANGED <<SCTL, pastSCTL19>>
    ELSE /\ \/ pastSCTL19' = [pastSCTL19 EXCEPT ![u32ModuleNum - SCTL19Base] = w]
            \/ pastSCTL19' = pastSCTL19
         /\ UNCHANGED <<SCTL, SCTL19>>

\* Lines 173-174 (178-179) without the clearing write: the arguments are
\* OR-ed into whatever the fields held.
ConfigWord_NoClear(w, u32TriggerSrc, u32Channel) ==
    [w EXCEPT !.TRG = BitOr(@, u32TriggerSrc), !.CHSEL = BitOr(@, u32Channel)]

\* Lines 173-174 (178-179): clear the trigger and channel fields, then OR.
ConfigWord(w, u32TriggerSrc, u32Channel) ==
    [w EXCEPT !.TRG = BitOr(0, u32TriggerSrc), !.CHSEL = BitOr(0, u32Channel)]

\* Lines 202-203 (207-208).
DelayWord(w, u32TriggerDelayTime, u32DelayClockDivider) ==
    [w EXCEPT !.TRGDLCNT = BitOr(0, u32TriggerDelayTime),
              !.TRGDLDIV = BitOr(0, u32DelayClockDivider)]

\* Lines 225-226 (230-231).
ExtendWord(w, u32ExtendSampleTime) ==
    [w EXCEPT !.EXTSMPT = BitOr(0, u32ExtendSampleTime)]

EADC_ConfigSampleModule ==
    /\ sample.n < MaxSampleCalls
    /\ \E u32ModuleNum \in ModuleNums, u32TriggerSrc \in FieldVals, u32Channel \in FieldVals :
          /\ SampleStore(u32ModuleNum,
                         ConfigWord(SampleWord(u32ModuleNum), u32TriggerSrc, u32Channel))
          /\ sample' = [SampleArmed("config", u32ModuleNum) EXCEPT
                            !.n = sample.n + 1,
                            !.trg = u32TriggerSrc, !.ch = u32Channel]
    /\ UNCHANGED <<g_EADC_i32ErrCode, eadcVars, uspiVars, intVars, otgVars>>

EADC_SetTriggerDelayTime ==
    /\ sample.n < MaxSampleCalls
    /\ \E u32ModuleNum \in ModuleNums, u32TriggerDelayTime \in FieldVals :
          /\ SampleStore(u32ModuleNum,
                         DelayWord(SampleWord(u32ModuleNum), u32TriggerDelayTime, 1))
          /\ sample' = [SampleArmed("delay", u32ModuleNum) EXCEPT !.n = sample.n + 1]
    /\ UNCHANGED <<g_EADC_i32ErrCode, eadcVars, uspiVars, intVars, otgVars>>

EADC_SetExtendSampleTime ==
    /\ sample.n < MaxSampleCalls
    /\ \E u32ModuleNum \in ModuleNums, u32ExtendSampleTime \in FieldVals :
          /\ SampleStore(u32ModuleNum,
                         ExtendWord(SampleWord(u32ModuleNum), u32ExtendSampleTime))
          /\ sample' = [SampleArmed("extend", u32ModuleNum) EXCEPT !.n = sample.n + 1]
    /\ UNCHANGED <<g_EADC_i32ErrCode, eadcVars, uspiVars, intVars, otgVars>>

InitSample ==
    /\ SystemCoreClock = 0
    /\ g_EADC_i32ErrCode \in {0, EADC_TIMEOUT_ERR}
    /\ EADCSEL = 0
    /\ EADCDIV = 0
    /\ CALIF = 0
    /\ EadcReset
    /\ SampleReset
    /\ UspiReset
    /\ UspiIntReset
    /\ OtgReset

NextSample ==
    \/ EADC_ConfigSampleModule
    \/ EADC_SetTriggerDelayTime
    \/ EADC_SetExtendSampleTime

SpecSample == InitSample /\ [][NextSample]_vars

(***************************************************************************)
(* USCI_SPI, usci_spi.c: USPI_Open (lines 44-103) and USPI_SetBusClock     *)
(* (lines 175-192).                                                        *)
(***************************************************************************)
UMod(x) == x % UspiWordMod

\* Unsigned division as the core computes it when it does not trap: a zero
\* divisor gives 0.  Whether it traps instead is chosen where it is used.
UDiv(a, b) == IF b = 0 THEN 0 ELSE a \div b

\* Lines 57 and 185.
ClkDivOf(u32Pclk, u32BusClock) ==
    UMod(UDiv(UMod(UDiv(UMod(UMod(UDiv(u32Pclk, 2) * 10)), u32BusClock) + 5), 10) - 1)

\* Lines 93-94 without the clearing write of line 93: the divider is OR-ed
\* into whatever the field held.
WriteClkDiv_NoClear(brgen, u32ClkDiv) ==
    BitOr(brgen, UMod(u32ClkDiv * (2 ^ USPI_BRGEN_CLKDIV_Pos)))

\* Lines 93-94 and 188-189.
WriteClkDiv(brgen, u32ClkDiv) ==
    BitOr(BitAnd(brgen, UspiWordMod - 1 - USPI_BRGEN_CLKDIV_Msk),
          UMod(u32ClkDiv * (2 ^ USPI_BRGEN_CLKDIV_Pos)))

\* (u32ClkDiv + 1ul) << 1, lines 99 and 191.
BusClockDivisor(u32ClkDiv) == UMod(UMod(u32ClkDiv + 1) * 2)

\* Lines 99 and 191.
BusClockOf(u32Pclk, u32ClkDiv) == UDiv(u32Pclk, BusClockDivisor(u32ClkDiv))

\* The CLKDIV field of a BRGEN word (line 204).
ClkDivField(brgen) == BitAnd(brgen, USPI_BRGEN_CLKDIV_Msk) \div (2 ^ USPI_BRGEN_CLKDIV_Pos)

BusClocks == 0..MaxBusClock
SpiModes == {0, 3}
DataWidths == {8, DWidthLimit}

\* Lines 50-53: u32Pclk is assigned for USPI0 only and is read uninitialised
\* for any other handle.
OpenPclks(uspi0) == IF uspi0 THEN {PCLK1} ELSE 0..MaxPclk

\* USPI_Open without the AUTOSS bit in the mask cleared at lines 87-89 and
\* without the LSB clear of line 74.
USPI_Open_KeepFormat ==
    /\ uspiCall.fn = "none"
    /\ \E uspi0 \in BOOLEAN, u32MasterSlave \in {USPI_MASTER, USPI_SLAVE},
          u32SPIMode \in SpiModes, u32DataWidth \in DataWidths,
          u32BusClock \in BusClocks :
       \E u32Pclk \in OpenPclks(uspi0), trap \in BOOLEAN :
          LET u32ClkDiv == IF u32BusClock # 0 THEN ClkDivOf(u32Pclk, u32BusClock) ELSE 0
              width == IF u32DataWidth >= DWidthLimit THEN 0 ELSE u32DataWidth
              zero == u32BusClock # 0 /\ BusClockDivisor(u32ClkDiv) = 0
              u32UspiClk == IF u32BusClock # 0 THEN BusClockOf(u32Pclk, u32ClkDiv) ELSE 0
          IN
          /\ trap => zero
          /\ UCTL' = [UCTL EXCEPT !.FUNMODE = 1]
          /\ LINECTL' = [LINECTL EXCEPT
                            !.DWIDTH = BitOr(0, width),
                            !.CTLOINV = IF u32MasterSlave = USPI_MASTER THEN 1 ELSE @]
          /\ CTLIN0' = [CTLIN0 EXCEPT
                            !.ININV = IF u32MasterSlave = USPI_MASTER THEN @ ELSE 1]
          /\ PROTCTL' = [PROTCTL EXCEPT !.SCLKMODE = BitOr(0, u32SPIMode),
                                        !.SLAVE = BitOr(0, u32MasterSlave),
                                        !.PROTEN = 1]
          /\ BRGEN' = WriteClkDiv(BRGEN, u32ClkDiv)
          /\ uspiCall' = [fn |-> "open", uspi0 |-> uspi0, P |-> u32Pclk, B |-> u32BusClock,
                          ms |-> u32MasterSlave, mode |-> u32SPIMode, width |-> u32DataWidth,
                          div |-> u32ClkDiv, ret |-> IF trap THEN 0 ELSE u32UspiClk,
                          fault |-> trap, brgen |-> BRGEN]
    /\ UNCHANGED <<g_EADC_i32ErrCode, eadcVars, sampleVars, PCLK1>>
    /\ UNCHANGED <<intVars, otgVars>>

USPI_Open ==
    /\ uspiCall.fn = "none"
    /\ \E uspi0 \in BOOLEAN, u32MasterSlave \in {USPI_MASTER, USPI_SLAVE},
          u32SPIMode \in SpiModes, u32DataWidth \in DataWidths,
          u32BusClock \in BusClocks :
       \E u32Pclk \in OpenPclks(uspi0), trap \in BOOLEAN :
          LET u32ClkDiv == IF u32BusClock # 0 THEN ClkDivOf(u32Pclk, u32BusClock) ELSE 0
              width == IF u32DataWidth >= DWidthLimit THEN 0 ELSE u32DataWidth
              zero == u32BusClock # 0 /\ BusClockDivisor(u32ClkDiv) = 0
              u32UspiClk == IF u32BusClock # 0 THEN BusClockOf(u32Pclk, u32ClkDiv) ELSE 0
          IN
          /\ trap => zero
          /\ UCTL' = [UCTL EXCEPT !.FUNMODE = 1]
          /\ LINECTL' = [LINECTL EXCEPT
                            !.DWIDTH = BitOr(0, width),
                            !.LSB = 0,
                            !.CTLOINV = IF u32MasterSlave = USPI_MASTER THEN 1 ELSE @]
          /\ CTLIN0' = [CTLIN0 EXCEPT
                            !.ININV = IF u32MasterSlave = USPI_MASTER THEN @ ELSE 1]
          /\ PROTCTL' = [PROTCTL EXCEPT !.SCLKMODE = BitOr(0, u32SPIMode),
                                        !.AUTOSS = 0,
                                        !.SLAVE = BitOr(0, u32MasterSlave),
                                        !.PROTEN = 1]
          /\ BRGEN' = WriteClkDiv(BRGEN, u32ClkDiv)
          /\ uspiCall' = [fn |-> "open", uspi0 |-> uspi0, P |-> u32Pclk, B |-> u32BusClock,
                          ms |-> u32MasterSlave, mode |-> u32SPIMode, width |-> u32DataWidth,
                          div |-> u32ClkDiv, ret |-> IF trap THEN 0 ELSE u32UspiClk,
                          fault |-> trap, brgen |-> BRGEN]
    /\ UNCHANGED <<g_EADC_i32ErrCode, eadcVars, sampleVars, PCLK1>>
    /\ UNCHANGED <<intVars, otgVars>>

USPI_SetBusClock ==
    /\ uspiCall.fn = "none"
    /\ \E uspi0 \in BOOLEAN, u32BusClock \in BusClocks, trap \in {"no", "first", "last"} :
          LET u32Pclk == IF uspi0 THEN PCLK1 ELSE 0
              u32ClkDiv == ClkDivOf(u32Pclk, u32BusClock)
          IN
          /\ trap = "first" => u32BusClock = 0
          /\ trap = "last" => BusClockDivisor(u32ClkDiv) = 0
          /\ BRGEN' = IF trap = "first" THEN BRGEN ELSE WriteClkDiv(BRGEN, u32ClkDiv)
          /\ uspiCall' = [fn |-> "setbusclock", uspi0 |-> uspi0, P |-> u32Pclk,
                          B |-> u32BusClock, ms |-> 0, mode |-> 0, width |-> 0,
                          div |-> u32ClkDiv,
                          ret |-> IF trap = "no" THEN BusClockOf(u32Pclk, u32ClkDiv) ELSE 0,
                          fault |-> trap # "no", brgen |-> BRGEN]
    /\ UNCHANGED <<g_EADC_i32ErrCode, eadcVars, sampleVars, PCLK1, UCTL, LINECTL, CTLIN0,
                   PROTCTL>>
    /\ UNCHANGED <<intVars, otgVars>>

\* One call is made, on registers that hold all zeros or all ones.
InitUspi ==
    /\ SystemCoreClock = 0
    /\ g_EADC_i32ErrCode = 0
    /\ EADCSEL = 0
    /\ EADCDIV = 0
    /\ CALIF = 0
    /\ EadcReset
    /\ SampleReset
    /\ PCLK1 \in 1..MaxPclk
    /\ \E b \in {0, 1} :
          /\ UCTL = [FUNMODE |-> 7 * b]
          /\ LINECTL = [DWIDTH |-> 15 * b, LSB |-> b, CTLOINV |-> b]
          /\ CTLIN0 = [ININV |-> b]
          /\ PROTCTL = [SLAVE |-> b, SCLKMODE |-> 3 * b, AUTOSS |-> b, PROTEN |-> b]
          /\ BRGEN = (UspiWordMod - 1) * b
    /\ uspiCall = NoUspiCall
    /\ UspiIntReset
    /\ OtgReset

NextUspi ==
    \/ USPI_Open
    \/ USPI_SetBusClock

SpecUspi == InitUspi /\ [][NextUspi]_vars

(***************************************************************************)
(* USCI_SPI interrupt enables, interrupt flags and status (usci_spi.c      *)
(* lines 231-644).  A register is the set of its bits that are 1.          *)
(***************************************************************************)
\* (u32Mask & X_MASK) == X_MASK, the test that guards every source.
Selected(u32Mask, m) == BitAnd(u32Mask, m) = m

\* Bit m of a word, by arithmetic.
InMask(w, m) == (w \div m) % 2 = 1

AllIntMask ==
    USPI_SSINACT_INT_MASK + USPI_SSACT_INT_MASK + USPI_SLVTO_INT_MASK
    + USPI_SLVBE_INT_MASK + USPI_TXUDR_INT_MASK + USPI_RXOV_INT_MASK
    + USPI_TXST_INT_MASK + USPI_TXEND_INT_MASK + USPI_RXST_INT_MASK
    + USPI_RXEND_INT_MASK
AllStatusMask ==
    USPI_BUSY_MASK + USPI_RX_EMPTY_MASK + USPI_RX_FULL_MASK + USPI_TX_EMPTY_MASK
    + USPI_TX_FULL_MASK + USPI_SSLINE_STS_MASK

\* The u32Mask arguments that are tried.
IntMasks ==
    {0, USPI_SSINACT_INT_MASK, USPI_TXUDR_INT_MASK + USPI_RXOV_INT_MASK,
     USPI_TXST_INT_MASK + USPI_TXEND_INT_MASK + USPI_RXST_INT_MASK + USPI_RXEND_INT_MASK,
     USPI_SSACT_INT_MASK + USPI_SLVTO_INT_MASK + USPI_SLVBE_INT_MASK,
     AllIntMask - USPI_SSINACT_INT_MASK, AllIntMask}
StatusMasks ==
    {0, USPI_BUSY_MASK, USPI_RX_EMPTY_MASK + USPI_TX_EMPTY_MASK,
     USPI_RX_FULL_MASK + USPI_TX_FULL_MASK + USPI_SSLINE_STS_MASK, AllStatusMask}

\* The enable bits of control register reg whose sources u32Mask selects.
SelectedEnables(u32Mask, reg) ==
    {IntSources[i].ien : i \in {j \in DOMAIN IntSources :
                                   /\ IntSources[j].ctl = reg
                                   /\ Selected(u32Mask, IntSources[j].mask)}}

\* The flags of status register reg whose sources u32Mask selects.
SelectedFlags(u32Mask, reg) ==
    {IntSources[i].flag : i \in {j \in DOMAIN IntSources :
                                    /\ IntSources[j].sts = reg
                                    /\ Selected(u32Mask, IntSources[j].mask)}}

\* uspi->REG |= X_Msk for every bit of bits.
EnableWrite(reg, bits) == reg \cup bits

\* A disable that writes the register to 0 when any of its bits is selected.
DisableWrite_All(reg, bits) == IF bits = {} THEN reg ELSE {}

\* uspi->REG &= ~X_Msk for every bit of bits.
DisableWrite(reg, bits) == reg \ bits

\* A clear by read-modify-write (REG |= X_Msk): every flag that is read as 1
\* is written back as 1 and so cleared.
ClearWrite_RMW(reg, flags) == IF flags = {} THEN reg ELSE {}

\* uspi->REG = X_Msk for every flag of flags, REG being write-1-to-clear.
ClearWrite(reg, flags) == reg \ flags

\* The ghost of the last call that selected each source.
Touch(u32Mask, what) ==
    [intHist EXCEPT !.last = [i \in DOMAIN IntSources |->
                                IF InMask(u32Mask, IntSources[i].mask) THEN what ELSE @[i]]]

USPI_EnableInt ==
    /\ \E u32Mask \in IntMasks :
          /\ PROTIEN' = EnableWrite(PROTIEN, SelectedEnables(u32Mask, "PROTIEN"))
          /\ BUFCTL' = EnableWrite(BUFCTL, SelectedEnables(u32Mask, "BUFCTL"))
          /\ INTEN' = EnableWrite(INTEN, SelectedEnables(u32Mask, "INTEN"))
          /\ intCall' = [NoIntCall EXCEPT !.fn = "enable", !.mask = u32Mask,
                            !.PROTIEN = PROTIEN, !.BUFCTL = BUFCTL, !.INTEN = INTEN,
                            !.PROTSTS = PROTSTS, !.BUFSTS = BUFSTS]
          /\ intHist' = Touch(u32Mask, "enable")
    /\ UNCHANGED <<PROTSTS, BUFSTS>>
    /\ UNCHANGED <<g_EADC_i32ErrCode, eadcVars, sampleVars, uspiVars, otgVars>>

USPI_DisableInt ==
    /\ \E u32Mask \in IntMasks :
          /\ PROTIEN' = DisableWrite(PROTIEN, SelectedEnables(u32Mask, "PROTIEN"))
          /\ BUFCTL' = DisableWrite(BUFCTL, SelectedEnables(u32Mask, "BUFCTL"))
          /\ INTEN' = DisableWrite(INTEN, SelectedEnables(u32Mask, "INTEN"))
          /\ intCall' = [NoIntCall EXCEPT !.fn = "disable", !.mask = u32Mask,
                            !.PROTIEN = PROTIEN, !.BUFCTL = BUFCTL, !.INTEN = INTEN,
                            !.PROTSTS = PROTSTS, !.BUFSTS = BUFSTS]
          /\ intHist' = Touch(u32Mask, "disable")
    /\ UNCHANGED <<PROTSTS, BUFSTS>>
    /\ UNCHANGED <<g_EADC_i32ErrCode, eadcVars, sampleVars, uspiVars, otgVars>>

\* Every subset of the ten enable bits a caller may have left behind is
\* covered by three: none, all, and one bit of each register.
InitUspiInt ==
    /\ SystemCoreClock = 0
    /\ g_EADC_i32ErrCode = 0
    /\ EADCSEL = 0
    /\ EADCDIV = 0
    /\ CALIF = 0
    /\ EadcReset
    /\ SampleReset
    /\ UspiReset
    /\ OtgReset
    /\ PROTSTS = {}
    /\ BUFSTS = {}
    /\ \E e \in { <<{}, {}, {}>>,
                   <<{"SSINAIEN", "SSACTIEN", "SLVTOIEN", "SLVBEIEN"},
                     {"TXUDRIEN", "RXOVIEN"},
                     {"TXSTIEN", "TXENDIEN", "RXSTIEN", "RXENDIEN"}>>,
                   <<{"SSACTIEN"}, {"RXOVIEN"}, {"TXSTIEN", "RXENDIEN"}>> } :
          /\ PROTIEN = e[1]
          /\ BUFCTL = e[2]
          /\ INTEN = e[3]
          /\ intHist = [NoIntHist EXCEPT !.ien0 = e[1] \cup e[2] \cup e[3]]
    /\ intCall = NoIntCall

NextUspiInt ==
    \/ USPI_EnableInt
    \/ USPI_DisableInt

SpecUspiInt == InitUspiInt /\ [][NextUspiInt]_vars

\* The status register a source reads.
StsReg(src, protsts, bufsts) == IF src.sts = "PROTSTS" THEN protsts ELSE bufsts

\* A flag getter that tests the flag only: the bit of a source is reported
\* whether or not u32Mask selects it.
RECURSIVE FlagsOf_Unmasked(_, _, _, _, _)
FlagsOf_Unmasked(srcs, i, u32Mask, protsts, bufsts) ==
    IF i = 0 THEN 0
    ELSE LET prev == FlagsOf_Unmasked(srcs, i - 1, u32Mask, protsts, bufsts)
         IN  IF srcs[i].flag \in StsReg(srcs[i], protsts, bufsts)
             THEN BitOr(prev, srcs[i].mask)
             ELSE prev

\* The result of USPI_GetIntFlag (lines 398-488) and USPI_GetStatus (lines
\* 590-644) after the first i sources of srcs: u32IntFlag |= X_MASK when the
\* source is selected and its flag reads 1.
RECURSIVE FlagsOf(_, _, _, _, _)
FlagsOf(srcs, i, u32Mask, protsts, bufsts) ==
    IF i = 0 THEN 0
    ELSE LET prev == FlagsOf(srcs, i - 1, u32Mask, protsts, bufsts)
         IN  IF /\ Selected(u32Mask, srcs[i].mask)
                /\ srcs[i].flag \in StsReg(srcs[i], protsts, bufsts)
             THEN BitOr(prev, srcs[i].mask)
             ELSE prev

IntSnapshot(fn, u32Mask, ret) ==
    [NoIntCall EXCEPT !.fn = fn, !.mask = u32Mask, !.ret = ret,
                      !.PROTIEN = PROTIEN, !.BUFCTL = BUFCTL, !.INTEN = INTEN,
                      !.PROTSTS = PROTSTS, !.BUFSTS = BUFSTS]

USPI_GetIntFlag ==
    /\ \E u32Mask \in IntMasks :
          intCall' = IntSnapshot("getint", u32Mask,
                                 FlagsOf(IntSources, Len(IntSources), u32Mask,
                                         PROTSTS, BUFSTS))
    /\ UNCHANGED <<PROTSTS, BUFSTS, PROTIEN, BUFCTL, INTEN, intHist>>
    /\ UNCHANGED <<g_EADC_i32ErrCode, eadcVars, sampleVars, uspiVars, otgVars>>

USPI_GetStatus ==
    /\ \E u32Mask \in StatusMasks :
          intCall' = IntSnapshot("getstatus", u32Mask,
                                 FlagsOf(StatusSources, Len(StatusSources), u32Mask,
                                         PROTSTS, BUFSTS))
    /\ UNCHANGED <<PROTSTS, BUFSTS, PROTIEN, BUFCTL, INTEN, intHist>>
    /\ UNCHANGED <<g_EADC_i32ErrCode, eadcVars, sampleVars, uspiVars, otgVars>>

USPI_ClearIntFlag ==
    /\ \E u32Mask \in IntMasks :
          /\ PROTSTS' = ClearWrite(PROTSTS, SelectedFlags(u32Mask, "PROTSTS"))
          /\ BUFSTS' = ClearWrite(BUFSTS, SelectedFlags(u32Mask, "BUFSTS"))
          /\ intCall' = IntSnapshot("clear", u32Mask, 0)
    /\ UNCHANGED <<PROTIEN, BUFCTL, INTEN, intHist>>
    /\ UNCHANGED <<g_EADC_i32ErrCode, eadcVars, sampleVars, uspiVars, otgVars>>

\* The USCI_SPI hardware raises an interrupt flag.
HwUspiFlag ==
    /\ \E i \in DOMAIN IntSources :
          /\ IntSources[i].flag \notin StsReg(IntSources[i], PROTSTS, BUFSTS)
          /\ PROTSTS' = IF IntSources[i].sts = "PROTSTS"
                        THEN PROTSTS \cup {IntSources[i].flag} ELSE PROTSTS
          /\ BUFSTS' = IF IntSources[i].sts = "BUFSTS"
                       THEN BUFSTS \cup {IntSources[i].flag} ELSE BUFSTS
    /\ intCall' = NoIntCall
    /\ UNCHANGED <<PROTIEN, BUFCTL, INTEN, intHist>>
    /\ UNCHANGED <<g_EADC_i32ErrCode, eadcVars, sampleVars, uspiVars, otgVars>>

\* No interrupt flag is pending at the start; the status bits, which the
\* driver never writes, hold one of two patterns.
InitUspiFlag ==
    /\ SystemCoreClock = 0
    /\ g_EADC_i32ErrCode = 0
    /\ EADCSEL = 0
    /\ EADCDIV = 0
    /\ CALIF = 0
    /\ EadcReset
    /\ SampleReset
    /\ UspiReset
    /\ OtgReset
    /\ \E st \in { <<{"BUSY"}, {"RXFULL", "TXEMPTY"}>>,
                    <<{"SSLINE"}, {"RXEMPTY", "TXFULL"}>> } :
          /\ PROTSTS = st[1]
          /\ BUFSTS = st[2]
    /\ PROTIEN = {}
    /\ BUFCTL = {}
    /\ INTEN = {}
    /\ intCall = NoIntCall
    /\ intHist = NoIntHist

NextUspiFlag ==
    \/ USPI_GetIntFlag
    \/ USPI_GetStatus
    \/ USPI_ClearIntFlag
    \/ HwUspiFlag

SpecUspiFlag == InitUspiFlag /\ [][NextUspiFlag]_vars

(***************************************************************************)
(* The interrupt macros of otg.h (lines 155-219) and hsotg.h (lines        *)
(* 199-265).  INTEN and INTSTS are words of OtgFlagBits bits; INTSTS is    *)
(* write-1-to-clear.                                                       *)
(***************************************************************************)
\* The u32Mask arguments that are tried: no bit, the lowest bit, every bit
\* but the lowest, every bit.
OtgMasks == {0, 1, 2 ^ OtgFlagBits - 2, 2 ^ OtgFlagBits - 1}

\* INTEN |= (u32Mask)
OtgEnableWord(inten, u32Mask) == BitOr(inten, u32Mask)

\* INTEN &= ~(u32Mask)
OtgDisableWord(inten, u32Mask) == inten - BitAnd(inten, u32Mask)

\* INTSTS & (u32Mask)
OtgFlagWord(intsts, u32Mask) == BitAnd(intsts, u32Mask)

\* What a write of w leaves in a write-1-to-clear register.
WriteOneToClear(reg, w) == reg - BitAnd(reg, w)

\* A clear by read-modify-write, INTSTS |= (u32Mask): every pending flag is
\* written back as 1.
OtgClrWord_RMW(intsts, u32Mask) == WriteOneToClear(intsts, BitOr(intsts, u32Mask))

\* INTSTS = (u32Mask)
OtgClrWord(intsts, u32Mask) == WriteOneToClear(intsts, u32Mask)

OtgCalled(fn, dev, u32Mask, ret) ==
    [fn |-> fn, dev |-> dev, mask |-> u32Mask, ret |-> ret, otg |-> otg]

OtgFrame == UNCHANGED <<g_EADC_i32ErrCode, eadcVars, sampleVars, uspiVars, intVars>>

ENABLE_INT(dev) ==
    /\ \E u32Mask \in OtgMasks :
          /\ otg' = [otg EXCEPT ![dev].INTEN = OtgEnableWord(@, u32Mask)]
          /\ otgCall' = OtgCalled("enable", dev, u32Mask, 0)
    /\ OtgFrame

DISABLE_INT(dev) ==
    /\ \E u32Mask \in OtgMasks :
          /\ otg' = [otg EXCEPT ![dev].INTEN = OtgDisableWord(@, u32Mask)]
          /\ otgCall' = OtgCalled("disable", dev, u32Mask, 0)
    /\ OtgFrame

GET_INT_FLAG(dev) ==
    /\ \E u32Mask \in OtgMasks :
          otgCall' = OtgCalled("get", dev, u32Mask, OtgFlagWord(otg[dev].INTSTS, u32Mask))
    /\ UNCHANGED otg
    /\ OtgFrame

CLR_INT_FLAG(dev) ==
    /\ \E u32Mask \in OtgMasks :
          /\ otg' = [otg EXCEPT ![dev].INTSTS = OtgClrWord(@, u32Mask)]
          /\ otgCall' = OtgCalled("clr", dev, u32Mask, 0)
    /\ OtgFrame

OTG_ENABLE_INT == ENABLE_INT("OTG")
OTG_DISABLE_INT == DISABLE_INT("OTG")
OTG_GET_INT_FLAG == GET_INT_FLAG("OTG")
OTG_CLR_INT_FLAG == CLR_INT_FLAG("OTG")
HSOTG_ENABLE_INT == ENABLE_INT("HSOTG")
HSOTG_DISABLE_INT == DISABLE_INT("HSOTG")
HSOTG_GET_INT_FLAG == GET_INT_FLAG("HSOTG")
HSOTG_CLR_INT_FLAG == CLR_INT_FLAG("HSOTG")

\* The controller raises an interrupt flag.
HwOtgFlag ==
    /\ \E dev \in OtgDevs, k \in 0..(OtgFlagBits - 1) :
          /\ ~InMask(otg[dev].INTSTS, 2 ^ k)
          /\ otg' = [otg EXCEPT ![dev].INTSTS = BitOr(@, 2 ^ k)]
    /\ otgCall' = NoOtgCall
    /\ OtgFrame

InitOtg ==
    /\ SystemCoreClock = 0
    /\ g_EADC_i32ErrCode = 0
    /\ EADCSEL = 0
    /\ EADCDIV = 0
    /\ CALIF = 0
    /\ EadcReset
    /\ SampleReset
    /\ UspiReset
    /\ UspiIntReset
    /\ OtgReset

NextOtg ==
    \/ OTG_ENABLE_INT
    \/ OTG_DISABLE_INT
    \/ OTG_GET_INT_FLAG
    \/ OTG_CLR_INT_FLAG
    \/ HSOTG_ENABLE_INT
    \/ HSOTG_DISABLE_INT
    \/ HSOTG_GET_INT_FLAG
    \/ HSOTG_CLR_INT_FLAG
    \/ HwOtgFlag

SpecOtg == InitOtg /\ [][NextOtg]_vars

Next ==
    \/ EADC_Calibration_Begin
    \/ EADC_Calibration_Reprogram
    \/ EADC_Calibration_Enable
    \/ EADC_Calibration_Check
    \/ EADC_CONV_RESET
    \/ EADC_Calibration_ResetPoll
    \/ EADC_Calibration_ClearFlag
    \/ EADC_Calibration_Start
    \/ EADC_Calibration_FinPoll
    \/ EADC_Calibration_Restore
    \/ Return
    \/ EADC_Open
    \/ EADC_Close
    \/ HwResetDone
    \/ HwCalDone

Spec == Init /\ [][Next]_vars

\* The core keeps executing a call that it has entered: whichever statement
\* of EADC_Calibration is next is eventually executed.  Nothing is assumed
\* of the hardware, of the caller, or of what follows the return.
CalibrationStep ==
    \/ (pc = "open_cal" /\ EADC_Calibration_Begin)
    \/ EADC_Calibration_Reprogram
    \/ EADC_Calibration_Enable
    \/ EADC_Calibration_Check
    \/ EADC_CONV_RESET
    \/ EADC_Calibration_ResetPoll
    \/ EADC_Calibration_ClearFlag
    \/ EADC_Calibration_Start
    \/ EADC_Calibration_FinPoll
    \/ EADC_Calibration_Restore

\* The clock words play no part in the control flow of the call: they start
\* at their largest modelled values, every SystemCoreClock and CALIF is kept.
InitFair ==
    /\ Init
    /\ EADCSEL = MaxClkSel
    /\ EADCDIV = MaxClkDiv

SpecFair == InitFair /\ [][Next]_vars /\ WF_vars(CalibrationStep)
(***************************************************************************)
(* Properties of EADC_Calibration.  pc = "done" is the instant of return;  *)
(* obs holds the values the call found and what it has done.               *)
(***************************************************************************)
Did(e) == \E i \in DOMAIN obs.ev : obs.ev[i] = e
ClocksRestored == EADCSEL = obs.sel /\ EADCDIV = obs.div
InCalibration == pc \notin {"idle", "open_cal"}

\* C1: when EADC_Calibration returns, EADCSEL and EADCDIV hold the values
\* they held when it was called, whatever those were and whatever the
\* hardware did.
C1_ClocksRestoredOnReturn == pc = "done" => ClocksRestored

\* A return after the reset poll timed out, with a select word that the
\* reprogramming had changed.
C1_Witness ==
    /\ pc = "done"
    /\ obs.rTO
    /\ ReprogramSel(obs.sel) # obs.sel
    /\ ReprogramDiv(obs.div) # obs.div
    /\ ClocksRestored

\* C2: a call that finds CALIF set issues no reset command, no calibration
\* start and no clear of CALIF, and returns with the clock words unchanged.
C2_AlreadyCalibrated ==
    (InCalibration /\ obs.calif = 1) =>
        /\ ~Did("reset")
        /\ ~Did("calStart")
        /\ ~Did("clearCALIF")
        /\ CALIF = 1
        /\ (pc = "done" => ClocksRestored)

C2_Witness == pc = "done" /\ obs.calif = 1 /\ CTL.ADCRST = 0 /\ CAL = 0

\* C3 as stated: CALIF clear at the call and the finished poll sees it set
\* before its countdown runs out; then the error code is 0 on return and
\* the clock words are restored.
C3_Original ==
    (pc = "done" /\ obs.calif = 0 /\ Did("finPollEnd") /\ ~obs.fTO) =>
        (g_EADC_i32ErrCode = 0 /\ ClocksRestored)

\* C3 amended: the same, provided the reset poll of the call also ended
\* before its countdown ran out.
C3_NoTimeoutNoError ==
    (pc = "done" /\ obs.calif = 0 /\ Did("finPollEnd") /\ ~obs.fTO /\ ~obs.rTO) =>
        (g_EADC_i32ErrCode = 0 /\ ClocksRestored)

\* The flag came after at least one poll that found it clear.
C3_Witness ==
    /\ pc = "done"
    /\ obs.calif = 0
    /\ Did("finPollEnd")
    /\ ~obs.fTO
    /\ ~obs.rTO
    /\ obs.fTests > 1
    /\ g_EADC_i32ErrCode = 0

\* C4: CALIF clear at the call and never set by the hardware during it;
\* then the error code is EADC_TIMEOUT_ERR on return and the clock words
\* are restored.
C4_NeverFinished ==
    (pc = "done" /\ obs.calif = 0 /\ ~obs.hwCalif) =>
        (g_EADC_i32ErrCode = EADC_TIMEOUT_ERR /\ ClocksRestored)

\* The reset ended in time, so the timeout is the finished poll's.
C4_Witness ==
    /\ pc = "done"
    /\ obs.calif = 0
    /\ ~obs.hwCalif
    /\ ~obs.rTO
    /\ obs.fTO
    /\ g_EADC_i32ErrCode = EADC_TIMEOUT_ERR

\* C5: in every return state CALIF is set or the error code is
\* EADC_TIMEOUT_ERR.
C5_FlagOrTimeout == pc = "done" => (CALIF = 1 \/ g_EADC_i32ErrCode = EADC_TIMEOUT_ERR)

C5_Witness == pc = "done" /\ CALIF # 1 /\ g_EADC_i32ErrCode = EADC_TIMEOUT_ERR

\* C6: when the reset poll runs out of countdown the call records
\* EADC_TIMEOUT_ERR and goes on: it clears CALIF, starts the calibration,
\* runs the finished poll and restores the clock words.
C6_ResetTimeoutContinues ==
    (pc = "done" /\ obs.rTO) =>
        /\ g_EADC_i32ErrCode = EADC_TIMEOUT_ERR
        /\ obs.ev = <<"snapshot", "reprogram", "adcen", "reset", "resetPollEnd",
                      "clearCALIF", "calStart", "finPollEnd", "restore">>
        /\ obs.fTests >= 1
        /\ ClocksRestored

\* The calibration itself then finished in time.
C6_Witness == pc = "done" /\ obs.rTO /\ ~obs.fTO /\ CALIF = 1

\* C7: between the reprogramming and the restore the EADC0 clock source
\* field selects PCLK0 and the EADC0 divider field is zero.
C7_CalibrationClock ==
    pc \in {"enable", "check", "reset", "resetpoll", "clearflag", "start",
            "finpoll", "restore"} =>
        /\ BitAnd(EADCSEL, CLK_EADCSEL_EADC0SEL_Msk) = CLK_EADCSEL_EADC0SEL_PCLK0
        /\ BitAnd(EADCDIV, CLK_EADCDIV_EADC0DIV_Msk) = 0

\* C8 as stated: once EADC_TIMEOUT_ERR is recorded no driver step replaces
\* it.
C8_Original ==
    [][g_EADC_i32ErrCode = EADC_TIMEOUT_ERR => g_EADC_i32ErrCode' = EADC_TIMEOUT_ERR]_vars

\* C8 amended: a recorded EADC_TIMEOUT_ERR is replaced only by the 0 that
\* the entry of EADC_Calibration (called directly or from EADC_Open)
\* writes; EADC_Close, the rest of a calibration and the hardware leave it.
C8_ResetOnlyOnEntry ==
    [][(g_EADC_i32ErrCode = EADC_TIMEOUT_ERR /\ g_EADC_i32ErrCode' # EADC_TIMEOUT_ERR)
          => (pc \in {"idle", "open_cal"} /\ pc' = "reprogram" /\ g_EADC_i32ErrCode' = 0)]_vars

\* A call that was entered with the timeout recorded and met no timeout
\* itself returns with the error code 0.
C8_Witness ==
    /\ pc = "done"
    /\ obs.err = EADC_TIMEOUT_ERR
    /\ g_EADC_i32ErrCode = 0

(***************************************************************************)
(* Properties of the sample module functions.                              *)
(***************************************************************************)
\* C9: a call of EADC_ConfigSampleModule, EADC_SetTriggerDelayTime or
\* EADC_SetExtendSampleTime with a module number above 27 changes nothing.
C9_OutOfRangeNoOp ==
    (sample.fn # "none" /\ sample.module > LastSampleModule) =>
        /\ SCTL = sample.SCTL
        /\ SCTL19 = sample.SCTL19
        /\ pastSCTL19 = sample.past
        /\ g_EADC_i32ErrCode = sample.err

C10_BusClock ==
    (uspiCall.fn # "none" /\ uspiCall.uspi0 /\ uspiCall.B # 0) =>
        LET half == (uspiCall.P + uspiCall.B) \div (2 * uspiCall.B)
            D == ClkDivField(BRGEN)
        IN  /\ ~uspiCall.fault
            /\ D = half - 1
            /\ uspiCall.ret = uspiCall.P \div (2 * (D + 1))

\* C11: USPI_Open called with u32BusClock = 0 leaves the CLKDIV field of BRGEN
\* at 0 whatever the field held before, performs no division and returns 0.
C11_ZeroBusClock ==
    (uspiCall.fn = "open" /\ uspiCall.B = 0) =>
        /\ ClkDivField(BRGEN) = 0
        /\ uspiCall.ret = 0
        /\ ~uspiCall.fault
        /\ BitAnd(BRGEN, UspiWordMod - 1 - USPI_BRGEN_CLKDIV_Msk)
              = BitAnd(uspiCall.brgen, UspiWordMod - 1 - USPI_BRGEN_CLKDIV_Msk)

\* USPI_Open with a zero bus clock has returned and the field was not zero
\* before the call.
C11_Witness ==
    /\ uspiCall.fn = "open"
    /\ uspiCall.B = 0
    /\ ClkDivField(uspiCall.brgen) # 0
    /\ ClkDivField(BRGEN) = 0

\* C12: after USPI_Open with a valid master/slave selector and SPI mode, from
\* any prior register state, the frame is MSB first (LSB clear), automatic
\* slave select is off (AUTOSS clear), slave select is active low (CTLOINV set
\* for a master, CTLIN0.ININV set for a slave), FUNMODE is 1 and PROTEN is set.
C12_OpenFormat ==
    uspiCall.fn = "open" =>
        /\ LINECTL.LSB = 0
        /\ PROTCTL.AUTOSS = 0
        /\ uspiCall.ms = USPI_MASTER => LINECTL.CTLOINV = 1
        /\ uspiCall.ms = USPI_SLAVE => CTLIN0.ININV = 1
        /\ UCTL.FUNMODE = 1
        /\ PROTCTL.PROTEN = 1
        /\ PROTCTL.SLAVE = uspiCall.ms
        /\ PROTCTL.SCLKMODE = uspiCall.mode

\* USPI_Open has configured a slave in mode 3 on registers that held zeros,
\* so every bit the claim names as set was written by the call.
C12_Witness ==
    /\ uspiCall.fn = "open"
    /\ uspiCall.ms = USPI_SLAVE
    /\ uspiCall.mode = 3
    /\ uspiCall.brgen = 0
    /\ CTLIN0.ININV = 1
    /\ PROTCTL.PROTEN = 1
    /\ UCTL.FUNMODE = 1

\* C13: when EADC_Open returns, DIFFEN equals the requested input mode and
\* ADCEN is set, whatever DIFFEN held before and whatever the calibration
\* met; the step that clears ADCEN afterwards (EADC_Close) is taken between
\* calls and changes no other field of CTL and nothing else.
C13_OpenClose ==
    [][/\ (pc' = "done" /\ obs'.open) =>
              (CTL'.DIFFEN = obs'.mode /\ CTL'.ADCEN = 1 /\ TRGDEC' = 1)
       /\ (CTL.ADCEN = 1 /\ CTL'.ADCEN = 0) =>
              /\ pc = "idle"
              /\ CTL' = [CTL EXCEPT !.ADCEN = 0]
              /\ UNCHANGED <<SystemCoreClock, g_EADC_i32ErrCode, EADCSEL, EADCDIV, CALIF,
                             CAL, TRGDEC, pc, obs>>]_vars

\* EADC_Open in differential mode has returned and EADC_Close has run after
\* it: the converter is disabled and the mode bit is still set.
C13_Witness ==
    /\ pc = "idle"
    /\ TRGDEC = 1
    /\ CTL.DIFFEN = 1
    /\ CTL.ADCEN = 0

(***************************************************************************)
(* Properties of the USCI_SPI interrupt enables, flags and status.         *)
(***************************************************************************)
\* The control register of a source, now and as the last call found it.
CtlNow(src) ==
    IF src.ctl = "PROTIEN" THEN PROTIEN ELSE IF src.ctl = "BUFCTL" THEN BUFCTL ELSE INTEN
CtlBefore(src) ==
    IF src.ctl = "PROTIEN" THEN intCall.PROTIEN
    ELSE IF src.ctl = "BUFCTL" THEN intCall.BUFCTL ELSE intCall.INTEN

\* C17: USPI_EnableInt(mask) sets exactly the enable bits of the selected
\* sources and USPI_DisableInt(mask) clears exactly those, the bits of
\* unselected sources staying as they were; after any sequence of calls a
\* source is enabled iff the last call that selected it was an enable, or it
\* was enabled at the start and no call selected it.
C17_EnableDisable ==
    \A i \in DOMAIN IntSources :
       LET src == IntSources[i]
           sel == InMask(intCall.mask, src.mask)
           now == src.ien \in CtlNow(src)
           was == src.ien \in CtlBefore(src)
       IN  /\ intCall.fn = "enable" => (now <=> (sel \/ was))
           /\ intCall.fn = "disable" => (now <=> (~sel /\ was))
           /\ now <=> \/ intHist.last[i] = "enable"
                      \/ intHist.last[i] = "none" /\ src.ien \in intHist.ien0
           /\ src.ien \notin UNION ({PROTIEN, BUFCTL, INTEN} \ {CtlNow(src)})
           /\ intCall.fn \in {"enable", "disable"} =>
                  (PROTSTS = intCall.PROTSTS /\ BUFSTS = intCall.BUFSTS)

\* A disable of part of the sources has just run after an enable of others:
\* one source was enabled and is now disabled, one is kept enabled by the
\* earlier enable, and one is still enabled from the start, never selected.
C17_Witness ==
    /\ intCall.fn = "disable"
    /\ intCall.mask = USPI_TXUDR_INT_MASK + USPI_RXOV_INT_MASK
    /\ "RXOVIEN" \in intCall.BUFCTL
    /\ "RXOVIEN" \notin BUFCTL
    /\ intHist.last[1] = "enable"
    /\ "SSINAIEN" \in PROTIEN
    /\ "SSINAIEN" \notin intHist.ien0
    /\ intHist.last[2] = "none"
    /\ "SSACTIEN" \in PROTIEN

\* The status register of a source, now and as the last call found it.
StsNow(src) == StsReg(src, PROTSTS, BUFSTS)
StsBefore(src) == StsReg(src, intCall.PROTSTS, intCall.BUFSTS)

\* The registers are as the last call found them.
IntRegistersKept ==
    /\ PROTSTS = intCall.PROTSTS
    /\ BUFSTS = intCall.BUFSTS
    /\ PROTIEN = intCall.PROTIEN
    /\ BUFCTL = intCall.BUFCTL
    /\ INTEN = intCall.INTEN

\* C15: USPI_GetIntFlag returns, for each of its ten sources, the bit of the
\* source iff u32Mask selects it and its PROTSTS/BUFSTS flag is set, never a
\* bit outside u32Mask, and writes no register; USPI_GetStatus does the same
\* for its six status sources.
C15_SelectedFlagsOnly ==
    /\ intCall.fn = "getint" =>
          /\ \A i \in DOMAIN IntSources :
                 InMask(intCall.ret, IntSources[i].mask)
                    <=> /\ InMask(intCall.mask, IntSources[i].mask)
                        /\ IntSources[i].flag \in StsNow(IntSources[i])
          /\ \A k \in 0..(UspiWordBits - 1) :
                 InMask(intCall.ret, 2 ^ k) => InMask(intCall.mask, 2 ^ k)
          /\ intCall.ret < UspiWordMod
          /\ IntRegistersKept
    /\ intCall.fn = "getstatus" =>
          /\ \A i \in DOMAIN StatusSources :
                 InMask(intCall.ret, StatusSources[i].mask)
                    <=> /\ InMask(intCall.mask, StatusSources[i].mask)
                        /\ StatusSources[i].flag \in StsNow(StatusSources[i])
          /\ \A k \in 0..(UspiWordBits - 1) :
                 InMask(intCall.ret, 2 ^ k) => InMask(intCall.mask, 2 ^ k)
          /\ intCall.ret < UspiWordMod
          /\ IntRegistersKept

\* USPI_GetIntFlag has been asked for the buffer sources while a selected
\* flag (RXOVIF) and an unselected flag (TXSTIF) were pending: it reported
\* the one and not the other.
C15_Witness ==
    /\ intCall.fn = "getint"
    /\ intCall.mask = USPI_TXUDR_INT_MASK + USPI_RXOV_INT_MASK
    /\ "RXOVIF" \in BUFSTS
    /\ "TXUDRIF" \notin BUFSTS
    /\ "TXSTIF" \in PROTSTS
    /\ intCall.ret = USPI_RXOV_INT_MASK

\* C16: PROTSTS and BUFSTS being write-1-to-clear, USPI_ClearIntFlag(mask)
\* clears exactly the flags of the selected sources and leaves every other
\* flag and status bit, so that USPI_GetIntFlag(mask) returns 0 right after
\* it while the flags outside mask are still reported.
C16_ClearSelected ==
    intCall.fn = "clear" =>
        /\ \A i \in DOMAIN IntSources :
               IntSources[i].flag \in StsNow(IntSources[i])
                  <=> /\ IntSources[i].flag \in StsBefore(IntSources[i])
                      /\ ~InMask(intCall.mask, IntSources[i].mask)
        /\ \A i \in DOMAIN StatusSources :
               StatusSources[i].flag \in StsNow(StatusSources[i])
                  <=> StatusSources[i].flag \in StsBefore(StatusSources[i])
        /\ FlagsOf(IntSources, Len(IntSources), intCall.mask, PROTSTS, BUFSTS) = 0
        /\ FlagsOf(IntSources, Len(IntSources), AllIntMask - intCall.mask, PROTSTS, BUFSTS)
              = FlagsOf(IntSources, Len(IntSources), AllIntMask - intCall.mask,
                        intCall.PROTSTS, intCall.BUFSTS)
        /\ PROTIEN = intCall.PROTIEN /\ BUFCTL = intCall.BUFCTL /\ INTEN = intCall.INTEN

\* USPI_ClearIntFlag has cleared the pending transfer flags TXSTIF and
\* RXENDIF while SSINAIF, in the same register, and RXOVIF were pending and
\* not selected: both are still pending.
C16_Witness ==
    /\ intCall.fn = "clear"
    /\ intCall.mask = USPI_TXST_INT_MASK + USPI_TXEND_INT_MASK + USPI_RXST_INT_MASK
                        + USPI_RXEND_INT_MASK
    /\ {"TXSTIF", "RXENDIF", "SSINAIF"} \subseteq intCall.PROTSTS
    /\ "TXSTIF" \notin PROTSTS
    /\ "RXENDIF" \notin PROTSTS
    /\ "SSINAIF" \in PROTSTS
    /\ "RXOVIF" \in BUFSTS

(***************************************************************************)
(* Properties of the OTG and HSOTG interrupt macros.                       *)
(***************************************************************************)
\* C18: OTG_ENABLE_INT(mask) and OTG_DISABLE_INT(mask), and the HSOTG ones,
\* set and clear the INTEN bits of mask and change no other bit,
\* OTG_GET_INT_FLAG(mask) returns INTSTS restricted to mask and writes
\* nothing, and OTG_CLR_INT_FLAG(mask) clears the pending flags of mask and
\* no other; the registers of the other controller are never touched.
C18_OtgMasked ==
    otgCall.fn # "none" =>
        LET d == otgCall.dev
            old == otgCall.otg[d]
            new == otg[d]
            In(w, k) == InMask(w, 2 ^ k)
            sel(k) == In(otgCall.mask, k)
        IN  /\ \A o \in OtgDevs \ {d} : otg[o] = otgCall.otg[o]
            /\ \A k \in 0..(OtgFlagBits - 1) :
                   /\ otgCall.fn = "enable" =>
                          /\ In(new.INTEN, k) <=> (sel(k) \/ In(old.INTEN, k))
                          /\ new.INTSTS = old.INTSTS
                   /\ otgCall.fn = "disable" =>
                          /\ In(new.INTEN, k) <=> (~sel(k) /\ In(old.INTEN, k))
                          /\ new.INTSTS = old.INTSTS
                   /\ otgCall.fn = "get" =>
                          /\ In(otgCall.ret, k) <=> (sel(k) /\ In(new.INTSTS, k))
                          /\ new = old
                   /\ otgCall.fn = "clr" =>
                          /\ In(new.INTSTS, k) <=> (~sel(k) /\ In(old.INTSTS, k))
                          /\ new.INTEN = old.INTEN
            /\ new.INTEN < 2 ^ OtgFlagBits
            /\ new.INTSTS < 2 ^ OtgFlagBits
            /\ otgCall.ret < 2 ^ OtgFlagBits

\* HSOTG_CLR_INT_FLAG has cleared one of two pending flags: the other is
\* still pending, and the enables it found are as they were.
C18_Witness ==
    /\ otgCall.fn = "clr"
    /\ otgCall.dev = "HSOTG"
    /\ otgCall.mask = 1
    /\ otgCall.otg["HSOTG"].INTSTS = 3
    /\ otg["HSOTG"].INTSTS = 2
    /\ otg["HSOTG"].INTEN = 1
    /\ otg["OTG"].INTEN = 2

(***************************************************************************)
(* Termination and the length of the polls.                                *)
(***************************************************************************)
\* C19: EADC_Calibration, once entered, returns, whatever the hardware does
\* and whatever SystemCoreClock is; a poll ends only with the awaited bit
\* changed or with its countdown at 0.
C19_Terminates ==
    /\ (pc \notin {"idle", "done"}) ~> (pc = "done")
    /\ [][/\ (pc = "resetpoll" /\ pc' # "resetpoll") =>
               (pc' = "clearflag" /\ (CTL.ADCRST = 0 \/ u32Delay' = 0))
          /\ (pc = "finpoll" /\ pc' # "finpoll") =>
               (pc' = "restore" /\ (CALIF = 1 \/ u32Delay' = 0))]_vars

\* A call made with SystemCoreClock = 0 is returning: neither awaited bit
\* ever changed, both countdowns started from 0 and wrapped around the whole
\* word, and both ran out.
C19_Witness ==
    /\ pc = "done"
    /\ SystemCoreClock = 0
    /\ obs.rTO
    /\ obs.fTO
    /\ obs.fTests = WordMod
    /\ CTL.ADCRST = 1
    /\ CALIF = 0

\* C20: for every SystemCoreClock, values below 20 included, the finished
\* poll has tested CALIF at most SystemCoreClock / 20 times when it records
\* the timeout.
C20_FinPollBound ==
    obs.fTO => obs.fTests <= SystemCoreClock \div CalPollDivisor

\* C21: for every SystemCoreClock, 0 included, the reset poll has tested
\* ADCRST at most SystemCoreClock times when it records the timeout.
C21_ResetPollBound ==
    (pc = "clearflag" /\ obs.rTO) => obs.rTests <= SystemCoreClock

(***************************************************************************)
(* Order of the register events and the error code on return.              *)
(***************************************************************************)
CalibrationEvents ==
    <<"snapshot", "reprogram", "adcen", "reset", "resetPollEnd",
      "clearCALIF", "calStart", "finPollEnd", "restore">>

\* The position of the call after each number of events.
PcAfter ==
    <<{"reprogram"}, {"enable"}, {"check", "reset"}, {"resetpoll"}, {"clearflag"},
      {"start"}, {"finpoll"}, {"restore"}, {"done"}>>

\* C22 as stated: a call of EADC_Calibration that CALIF was clear at the
\* start of has, on return, gone through all nine register events.
C22_Original ==
    (pc = "done" /\ obs.calif = 0) => obs.ev = CalibrationEvents

\* C22: in a call of EADC_Calibration whose test of CALIF found it clear the
\* register events are, at every moment, the first events of: snapshot,
\* reprogramming, ADCEN set, reset command, end of the reset poll, CALIF
\* cleared, calibration start, end of the finished poll, restore; all nine
\* have occurred on return, so the calibration is never started before the
\* reset is commanded and CALIF is cleared before it is started.  A call
\* whose test has not been made yet has the first three.
C22_EventOrder ==
    /\ (InCalibration /\ obs.tested # "set") =>
          /\ Len(obs.ev) \in 1..Len(CalibrationEvents)
          /\ obs.ev = SubSeq(CalibrationEvents, 1, Len(obs.ev))
          /\ pc \in PcAfter[Len(obs.ev)]
          /\ obs.tested = "none" <=> pc \in {"reprogram", "enable", "check"}
          /\ Did("calStart") => (Did("reset") /\ Did("clearCALIF"))
    /\ (pc = "done" /\ obs.tested = "clear") => obs.ev = CalibrationEvents
    /\ (pc = "done" /\ obs.tested = "set") =>
          obs.ev = <<"snapshot", "reprogram", "adcen", "restore">>

\* A call whose test found CALIF clear is returning without any timeout:
\* the reset ended, the hardware finished the calibration, and all nine
\* events are on record.
C22_Witness ==
    /\ pc = "done"
    /\ obs.calif = 0
    /\ obs.tested = "clear"
    /\ ~obs.rTO
    /\ ~obs.fTO
    /\ obs.hwCalif
    /\ CALIF = 1
    /\ Len(obs.ev) = Len(CalibrationEvents)

\* C23: when EADC_Calibration returns, the error code is EADC_TIMEOUT_ERR if
\* one of the two polls of that call ran out of countdown and 0 if neither
\* did, whatever it was before the call; a timeout of the reset poll is
\* still on record when the finished poll has succeeded.
C23_ErrorCode ==
    pc = "done" =>
        /\ (obs.rTO \/ obs.fTO) => g_EADC_i32ErrCode = EADC_TIMEOUT_ERR
        /\ ~(obs.rTO \/ obs.fTO) => g_EADC_i32ErrCode = 0
        /\ obs.tested = "set" => ~(obs.rTO \/ obs.fTO)
        /\ obs.rTO => Did("resetPollEnd")
        /\ obs.fTO => Did("finPollEnd")

\* A call entered with EADC_TIMEOUT_ERR on record from an earlier call is
\* returning after both polls ended in time: the code is 0 again.
C23_Witness ==
    /\ pc = "done"
    /\ obs.err = EADC_TIMEOUT_ERR
    /\ obs.tested = "clear"
    /\ ~obs.rTO
    /\ ~obs.fTO
    /\ g_EADC_i32ErrCode = 0

====
